---- MODULE Spec2Model ----
(***************************************************************************)
(* A model of game_agent.py: the CustomPlayer of an Isolation-like game.   *)
(* get_move dispatches to the minimax or alphabeta method, which either    *)
(* runs one fixed-depth search or deepens iteratively while a clock        *)
(* (time_left) runs down.  The board and the evaluator are collaborators   *)
(* of the agent: a game state is a node of a finite game tree, its legal   *)
(* moves are its ordered children, and the evaluator gives every node an   *)
(* integer score.                                                          *)
(***************************************************************************)
EXTENDS Integers, Sequences, FiniteSets, TLC

(* ------------------------------------------------------------------ *)
(* Bounds of the model.                                               *)
(* ------------------------------------------------------------------ *)
MaxHeight == 3      \* plies below the root after which every state is terminal
MaxKids == 3        \* largest number of legal moves of a state
MaxBoard == 35      \* boards (game trees) are numbered 0..MaxBoard
MaxScoreFn == 2     \* evaluators are numbered 0..MaxScoreFn
MaxScore == 3       \* evaluators return scores in 0..MaxScore
MaxDepth == 3       \* search_depth and direct call depths are 1..MaxDepth

(* ------------------------------------------------------------------ *)
(* Values of the program.                                             *)
(* ------------------------------------------------------------------ *)
PosInf == 1000                  \* float("inf")
NegInf == -1000                 \* float("-inf")
PyTrue == 1                     \* True, compared with floats as 1
None == <<>>                    \* None
no_legal_moves == <<-1, -1>>
center_position == <<4, 4>>
corner_position == <<0, 0>>
MIN_TIME_LEFT == 20
DefaultTimeout == 25

(* ------------------------------------------------------------------ *)
(* The board: a game state is [board, path], the path being the moves *)
(* (child indices) played from the root of game tree number `board`.  *)
(* ------------------------------------------------------------------ *)
max(a, b) == IF a >= b THEN a ELSE b
min(a, b) == IF a <= b THEN a ELSE b

RECURSIVE PathHash(_, _)
PathHash(path, seed) ==
    IF path = <<>> THEN seed % 61
    ELSE LET h == PathHash(SubSeq(path, 1, Len(path) - 1), seed)
             d == path[Len(path)]
         IN  ((h + d) * (h + 2 * d + 1) + 3) % 61

\* the number of legal moves of a state: 0..MaxKids
NumMoves(game) ==
    IF Len(game.path) >= MaxHeight THEN 0
    ELSE min(MaxKids, PathHash(game.path, 7 * game.board + 1) % (MaxKids + 2))

\* game.get_legal_moves(): the ordered moves of the side to move; the move
\* to the i-th child is the pair (ply, i - 1).
get_legal_moves(game) ==
    [i \in 1..NumMoves(game) |-> <<Len(game.path), i - 1>>]

\* game.forecast_move(move): a new state, the argument is left alone.
forecast_move(game, move) ==
    [game EXCEPT !.path = Append(@, move[2] + 1)]

\* game.move_is_legal(move)
move_is_legal(game, move) ==
    \E i \in 1..NumMoves(game) : get_legal_moves(game)[i] = move

\* player.score(game, player): the evaluator score_fn of the player.
score(game, player) ==
    PathHash(game.path, 11 * player.score_fn + 2 * game.board + 5) % (MaxScore + 1)

(* ------------------------------------------------------------------ *)
(* The clock.  t = [clock, tick, log]: time_left() reports t.clock    *)
(* and the next query reports tick less.  log records what a search   *)
(* did, in order.                                                     *)
(* ------------------------------------------------------------------ *)
time_left(t, game) ==
    [t EXCEPT !.clock = @ - t.tick,
              !.log = Append(@, [op |-> "time_left", node |-> game.path, value |-> t.clock])]

Forecast(t, game, move) ==
    [t EXCEPT !.log = Append(@, [op |-> "forecast", node |-> game.path, move |-> move])]

Scored(t, game, move) ==
    [t EXCEPT !.log = Append(@, [op |-> "score", node |-> game.path, move |-> move])]

Called(t, fn, game, depth, alpha, beta, maximizing_player) ==
    [t EXCEPT !.log = Append(@, [op |-> fn, node |-> game.path, depth |-> depth,
                                 alpha |-> alpha, beta |-> beta,
                                 maximizing_player |-> maximizing_player])]

Result(s, m, t) == [score |-> s, move |-> m, t |-> t]

(* ------------------------------------------------------------------ *)
(* The player.                                                        *)
(* ------------------------------------------------------------------ *)
\* CustomPlayer.__init__
CustomPlayer(search_depth, score_fn, iterative, method, timeout) ==
    [search_depth |-> search_depth, iterative |-> iterative, score_fn |-> score_fn,
     method |-> method, TIMER_THRESHOLD |-> timeout, MIN_TIME_LEFT |-> MIN_TIME_LEFT]

\* terminal_result with the two extremes exchanged
terminal_result_exchanged(maximizing_player, t) ==
    IF maximizing_player THEN Result(PosInf, no_legal_moves, t)
    ELSE Result(NegInf, no_legal_moves, t)

\* the result of a search called on a state without legal moves
terminal_result(maximizing_player, t) ==
    IF maximizing_player THEN Result(NegInf, no_legal_moves, t)
    ELSE Result(PosInf, no_legal_moves, t)

(* ------------------------------------------------------------------ *)
(* The leaf scans: each loop is a recursion over the index i of the   *)
(* next move of legal_moves.                                          *)
(* ------------------------------------------------------------------ *)
RECURSIVE get_minimax_max_move_loop(_, _, _, _, _, _, _)
\* get_minimax_max_move_loop replacing the best move on an equal score
get_minimax_max_move_loop_ties(player, game, legal_moves, i, max_score, max_score_move, t) ==
    IF i > Len(legal_moves) THEN Result(max_score, max_score_move, t)
    ELSE LET move == legal_moves[i]
             t1 == time_left(t, game)
         IN  IF t.clock < player.MIN_TIME_LEFT
             THEN Result(max_score, max_score_move, t1)
             ELSE LET s == score(forecast_move(game, move), player)
                      t2 == Scored(Forecast(t1, game, move), game, move)
                  IN  IF s >= max_score
                      THEN get_minimax_max_move_loop(player, game, legal_moves, i + 1, s, move, t2)
                      ELSE get_minimax_max_move_loop(player, game, legal_moves, i + 1,
                                                     max_score, max_score_move, t2)

get_minimax_max_move_loop(player, game, legal_moves, i, max_score, max_score_move, t) ==
    IF i > Len(legal_moves) THEN Result(max_score, max_score_move, t)
    ELSE LET move == legal_moves[i]
             t1 == time_left(t, game)
         IN  IF t.clock < player.MIN_TIME_LEFT
             THEN Result(max_score, max_score_move, t1)
             ELSE LET s == score(forecast_move(game, move), player)
                      t2 == Scored(Forecast(t1, game, move), game, move)
                  IN  IF s > max_score
                      THEN get_minimax_max_move_loop(player, game, legal_moves, i + 1, s, move, t2)
                      ELSE get_minimax_max_move_loop(player, game, legal_moves, i + 1,
                                                     max_score, max_score_move, t2)

get_minimax_max_move(player, game, legal_moves, t) ==
    get_minimax_max_move_loop(player, game, legal_moves, 1, NegInf, None, t)

RECURSIVE get_minimax_min_move_loop(_, _, _, _, _, _, _)
get_minimax_min_move_loop(player, game, legal_moves, i, min_score, min_score_move, t) ==
    IF i > Len(legal_moves) THEN Result(min_score, min_score_move, t)
    ELSE LET move == legal_moves[i]
             t1 == time_left(t, game)
         IN  IF t.clock < player.MIN_TIME_LEFT
             THEN Result(min_score, min_score_move, t1)
             ELSE LET s == score(forecast_move(game, move), player)
                      t2 == Scored(Forecast(t1, game, move), game, move)
                  IN  IF s < min_score
                      THEN get_minimax_min_move_loop(player, game, legal_moves, i + 1, s, move, t2)
                      ELSE get_minimax_min_move_loop(player, game, legal_moves, i + 1,
                                                     min_score, min_score_move, t2)

get_minimax_min_move(player, game, legal_moves, t) ==
    get_minimax_min_move_loop(player, game, legal_moves, 1, PosInf, None, t)

RECURSIVE get_alphabeta_max_move_loop(_, _, _, _, _, _, _, _, _)
get_alphabeta_max_move_loop(player, game, legal_moves, i, alpha, beta, max_score, max_score_move, t) ==
    IF i > Len(legal_moves) THEN Result(max_score, max_score_move, t)
    ELSE LET move == legal_moves[i]
             t1 == time_left(t, game)
         IN  IF t.clock < player.MIN_TIME_LEFT
             THEN Result(max_score, max_score_move, t1)
             ELSE LET s == score(forecast_move(game, move), player)
                      t2 == Scored(Forecast(t1, game, move), game, move)
                  IN  IF s > max_score
                      THEN IF beta <= max(alpha, s)
                           THEN Result(s, move, t2)
                           ELSE get_alphabeta_max_move_loop(player, game, legal_moves, i + 1,
                                                            max(alpha, s), beta, s, move, t2)
                      ELSE get_alphabeta_max_move_loop(player, game, legal_moves, i + 1,
                                                       alpha, beta, max_score, max_score_move, t2)

get_alphabeta_max_move(player, game, legal_moves, alpha, beta, t) ==
    get_alphabeta_max_move_loop(player, game, legal_moves, 1, alpha, beta, alpha, None, t)

RECURSIVE get_alphabeta_min_move_loop(_, _, _, _, _, _, _, _, _)
get_alphabeta_min_move_loop(player, game, legal_moves, i, alpha, beta, min_score, min_score_move, t) ==
    IF i > Len(legal_moves) THEN Result(min_score, min_score_move, t)
    ELSE LET move == legal_moves[i]
             t1 == time_left(t, game)
         IN  IF t.clock < player.MIN_TIME_LEFT
             THEN Result(min_score, min_score_move, t1)
             ELSE LET s == score(forecast_move(game, move), player)
                      t2 == Scored(Forecast(t1, game, move), game, move)
                  IN  IF s < min_score
                      THEN IF min(beta, s) <= alpha
                           THEN Result(s, move, t2)
                           ELSE get_alphabeta_min_move_loop(player, game, legal_moves, i + 1,
                                                            alpha, min(beta, s), s, move, t2)
                      ELSE get_alphabeta_min_move_loop(player, game, legal_moves, i + 1,
                                                       alpha, beta, min_score, min_score_move, t2)

get_alphabeta_min_move(player, game, legal_moves, alpha, beta, t) ==
    get_alphabeta_min_move_loop(player, game, legal_moves, 1, alpha, beta, beta, None, t)

(* ------------------------------------------------------------------ *)
(* minimax(player, game, depth, maximizing_player)                    *)
(* ------------------------------------------------------------------ *)
RECURSIVE minimax(_, _, _, _, _)
RECURSIVE minimax_max_loop(_, _, _, _, _, _, _, _)
RECURSIVE minimax_min_loop(_, _, _, _, _, _, _, _)

minimax_max_loop(player, game, depth, legal_moves, i, max_score, max_move, t) ==
    IF i > Len(legal_moves) THEN Result(max_score, max_move, t)
    ELSE LET move == legal_moves[i]
             t1 == time_left(t, game)
         IN  IF t.clock < player.MIN_TIME_LEFT
             THEN Result(max_score, max_move, t1)
             ELSE LET r == minimax(player, forecast_move(game, move), depth - 1, FALSE,
                                   Forecast(t1, game, move))
                  IN  IF r.score > max_score
                      THEN minimax_max_loop(player, game, depth, legal_moves, i + 1,
                                            r.score, move, r.t)
                      ELSE minimax_max_loop(player, game, depth, legal_moves, i + 1,
                                            max_score, max_move, r.t)

minimax_min_loop(player, game, depth, legal_moves, i, min_score, min_move, t) ==
    IF i > Len(legal_moves) THEN Result(min_score, min_move, t)
    ELSE LET move == legal_moves[i]
             t1 == time_left(t, game)
         IN  IF t.clock < player.MIN_TIME_LEFT
             THEN Result(min_score, min_move, t1)
             ELSE LET r == minimax(player, forecast_move(game, move), depth - 1, TRUE,
                                   Forecast(t1, game, move))
                  IN  IF r.score < min_score
                      THEN minimax_min_loop(player, game, depth, legal_moves, i + 1,
                                            r.score, move, r.t)
                      ELSE minimax_min_loop(player, game, depth, legal_moves, i + 1,
                                            min_score, min_move, r.t)

minimax(player, game, depth, maximizing_player, t) ==
    LET legal_moves == get_legal_moves(game)
        t0 == Called(t, "minimax", game, depth, NegInf, PosInf, maximizing_player)
    IN  IF Len(legal_moves) = 0 THEN terminal_result(maximizing_player, t0)
        ELSE \* `depth == 1 or time_left() < MIN_TIME_LEFT`: no query at depth 1
             LET t1 == IF depth = 1 THEN t0 ELSE time_left(t0, game)
             IN  IF depth = 1 \/ t0.clock < player.MIN_TIME_LEFT
                 THEN IF maximizing_player
                      THEN get_minimax_max_move(player, game, legal_moves, t1)
                      ELSE get_minimax_min_move(player, game, legal_moves, t1)
                 ELSE IF maximizing_player
                      THEN minimax_max_loop(player, game, depth, legal_moves, 1, NegInf, None, t1)
                      ELSE minimax_min_loop(player, game, depth, legal_moves, 1, PosInf, None, t1)

(* ------------------------------------------------------------------ *)
(* alphabeta(player, game, depth, alpha, beta, maximizing_player)     *)
(* ------------------------------------------------------------------ *)
RECURSIVE alphabeta(_, _, _, _, _, _, _)
RECURSIVE alphabeta_max_loop(_, _, _, _, _, _, _, _, _, _)
RECURSIVE alphabeta_min_loop(_, _, _, _, _, _, _, _, _, _)

\* alphabeta_max_loop cutting off one step early: at beta <= alpha + 1
alphabeta_max_loop_early(player, game, depth, legal_moves, i, alpha, beta, best_value, best_move, t) ==
    IF i > Len(legal_moves) THEN Result(best_value, best_move, t)
    ELSE LET move == legal_moves[i]
             r == alphabeta(player, forecast_move(game, move), depth - 1, alpha, beta, FALSE,
                            Forecast(t, game, move))
         IN  IF r.score > best_value
             THEN IF beta <= max(alpha, r.score) + 1
                  THEN Result(r.score, move, r.t)
                  ELSE IF r.t.clock < player.MIN_TIME_LEFT
                       THEN Result(r.score, move, time_left(r.t, game))
                       ELSE alphabeta_max_loop(player, game, depth, legal_moves, i + 1,
                                               max(alpha, r.score), beta, r.score, move,
                                               time_left(r.t, game))
             ELSE alphabeta_max_loop(player, game, depth, legal_moves, i + 1,
                                     alpha, beta, best_value, best_move, r.t)

\* `beta <= alpha or time_left() < MIN_TIME_LEFT` after an improvement: the
\* clock is read only when the window is still open.
alphabeta_max_loop(player, game, depth, legal_moves, i, alpha, beta, best_value, best_move, t) ==
    IF i > Len(legal_moves) THEN Result(best_value, best_move, t)
    ELSE LET move == legal_moves[i]
             r == alphabeta(player, forecast_move(game, move), depth - 1, alpha, beta, FALSE,
                            Forecast(t, game, move))
         IN  IF r.score > best_value
             THEN IF beta <= max(alpha, r.score)
                  THEN Result(r.score, move, r.t)
                  ELSE IF r.t.clock < player.MIN_TIME_LEFT
                       THEN Result(r.score, move, time_left(r.t, game))
                       ELSE alphabeta_max_loop(player, game, depth, legal_moves, i + 1,
                                               max(alpha, r.score), beta, r.score, move,
                                               time_left(r.t, game))
             ELSE alphabeta_max_loop(player, game, depth, legal_moves, i + 1,
                                     alpha, beta, best_value, best_move, r.t)

alphabeta_min_loop(player, game, depth, legal_moves, i, alpha, beta, best_value, best_move, t) ==
    IF i > Len(legal_moves) THEN Result(best_value, best_move, t)
    ELSE LET move == legal_moves[i]
             r == alphabeta(player, forecast_move(game, move), depth - 1, alpha, beta, TRUE,
                            Forecast(t, game, move))
         IN  IF r.score < best_value
             THEN IF min(beta, r.score) <= alpha
                  THEN Result(r.score, move, r.t)
                  ELSE IF r.t.clock < player.MIN_TIME_LEFT
                       THEN Result(r.score, move, time_left(r.t, game))
                       ELSE alphabeta_min_loop(player, game, depth, legal_moves, i + 1,
                                               alpha, min(beta, r.score), r.score, move,
                                               time_left(r.t, game))
             ELSE alphabeta_min_loop(player, game, depth, legal_moves, i + 1,
                                     alpha, beta, best_value, best_move, r.t)

alphabeta(player, game, depth, alpha, beta, maximizing_player, t) ==
    LET legal_moves == get_legal_moves(game)
        t0 == Called(t, "alphabeta", game, depth, alpha, beta, maximizing_player)
    IN  IF Len(legal_moves) = 0 THEN terminal_result(maximizing_player, t0)
        ELSE LET t1 == IF depth = 1 THEN t0 ELSE time_left(t0, game)
             IN  IF depth = 1 \/ t0.clock < player.MIN_TIME_LEFT
                 THEN IF maximizing_player
                      THEN get_alphabeta_max_move(player, game, legal_moves, alpha, beta, t1)
                      ELSE get_alphabeta_min_move(player, game, legal_moves, alpha, beta, t1)
                 ELSE IF maximizing_player
                      THEN alphabeta_max_loop(player, game, depth, legal_moves, 1,
                                              alpha, beta, alpha, None, t1)
                      ELSE alphabeta_min_loop(player, game, depth, legal_moves, 1,
                                              alpha, beta, beta, None, t1)

(* ------------------------------------------------------------------ *)
(* State.                                                             *)
(* ------------------------------------------------------------------ *)
VARIABLES
    player,             \* the CustomPlayer
    game,               \* the state the player is asked to move from
    clock,              \* what the next time_left() reports
    tick,               \* what every time_left() query costs
    pc,                 \* where the call is: "idle", "minimax", "alphabeta", "returned", "raised"
    iterative_depth,    \* the loop counter of the iterative-deepening loops
    best_score,         \* best_score of the loops
    best_move,          \* best_move of the loops
    iterations,         \* the moves the searches of the loop returned, in order
    returned,           \* the value get_move returned
    log,                \* what the last search did
    args,               \* arguments of a direct call of a search function
    mm,                 \* result of the direct call minimax(player, game, ...)
    ab                  \* result of the direct call alphabeta(player, game, ...)

vars == <<player, game, clock, tick, pc, iterative_depth, best_score, best_move,
          iterations, returned, log, args, mm, ab>>

Methods == {"minimax", "alphabeta"}
Budgets == {5, 22, 26, 30, 36, 48, 70, 200}     \* ms on the clock when get_move is called
CallBudgets == {5, 22, 30, 200}                 \* ms on the clock at a direct call
Boards == [board : 0..MaxBoard, path : {<<>>}]
Ticks == {1, 3, 9}
Depths == 1..MaxDepth
Windows == {<<NegInf, PosInf>>, <<PyTrue, PosInf>>, <<NegInf, 2>>, <<PyTrue, 2>>}
NoCall == [called |-> FALSE]
NoArgs == [depth |-> 0]

\* the clock a search starts with, right after the query of its caller
Clock == [clock |-> clock - tick, tick |-> tick, log |-> <<>>]

(* ------------------------------------------------------------------ *)
(* get_move and the methods CustomPlayer.minimax, CustomPlayer.alphabeta *)
(* ------------------------------------------------------------------ *)
Init ==
    /\ player \in {CustomPlayer(d, f, i, m, DefaultTimeout) :
                       d \in Depths, f \in 0..MaxScoreFn, i \in BOOLEAN, m \in Methods}
    /\ game \in Boards
    /\ clock \in Budgets
    /\ tick \in Ticks
    /\ pc = "idle"
    /\ iterative_depth = 0
    /\ best_score = None
    /\ best_move = None
    /\ iterations = <<>>
    /\ returned = None
    /\ log = <<>>
    /\ args = NoArgs
    /\ mm = NoCall
    /\ ab = NoCall

Return(move) ==
    /\ pc' = "returned"
    /\ returned' = move

\* what get_move passes on: self.minimax(game, self.search_depth, True) and
\* self.alphabeta(game, self.search_depth, True), the third positional
\* parameter of alphabeta being alpha.
minimax_call == [maximizing_player |-> TRUE]
alphabeta_call == [alpha |-> PyTrue, beta |-> PosInf, maximizing_player |-> TRUE]

\* the search of one call of CustomPlayer.minimax or CustomPlayer.alphabeta
search(method, depth) ==
    IF method = "minimax"
    THEN minimax(player, game, depth, minimax_call.maximizing_player, Clock)
    ELSE alphabeta(player, game, depth, alphabeta_call.alpha, alphabeta_call.beta,
                   alphabeta_call.maximizing_player, Clock)

get_move ==
    /\ pc = "idle"
    /\ LET legal_moves == get_legal_moves(game)
       IN  IF Len(legal_moves) = 0
           THEN /\ Return(no_legal_moves)
                /\ UNCHANGED <<clock, log, iterative_depth, best_score, best_move>>
           ELSE IF Len(legal_moves) = 49
           THEN /\ Return(center_position)
                /\ UNCHANGED <<clock, log, iterative_depth, best_score, best_move>>
           ELSE IF Len(legal_moves) = 48
           THEN /\ Return(IF move_is_legal(game, center_position)
                          THEN center_position ELSE corner_position)
                /\ UNCHANGED <<clock, log, iterative_depth, best_score, best_move>>
           ELSE IF ~player.iterative
           THEN \* fixed depth: Timeout is raised and turned into TimeoutError
                IF clock < player.TIMER_THRESHOLD
                THEN /\ pc' = "raised"
                     /\ clock' = clock - tick
                     /\ UNCHANGED <<returned, log, iterative_depth, best_score, best_move>>
                ELSE LET r == search(player.method, player.search_depth)
                     IN  /\ Return(r.move)
                         /\ clock' = r.t.clock
                         /\ log' = r.t.log
                         /\ UNCHANGED <<iterative_depth, best_score, best_move>>
           ELSE \* iterative: enter the loop of the method
                /\ pc' = player.method
                /\ iterative_depth' = 1
                /\ best_score' = None
                /\ best_move' = None
                /\ UNCHANGED <<returned, clock, log>>
    /\ UNCHANGED <<player, game, tick, iterations, args, mm, ab>>

\* one turn of `while True` in CustomPlayer.minimax / CustomPlayer.alphabeta
iterate(method) ==
    /\ pc = method
    /\ IF clock < player.TIMER_THRESHOLD
       THEN /\ Return(best_move)
            /\ clock' = clock - tick
            /\ UNCHANGED <<iterative_depth, best_score, best_move, iterations, log>>
       ELSE LET r == search(method, iterative_depth)
            IN  /\ best_score' = r.score
                /\ best_move' = r.move
                /\ iterative_depth' = iterative_depth + 1
                /\ iterations' = Append(iterations, r.move)
                /\ clock' = r.t.clock
                /\ log' = r.t.log
                /\ UNCHANGED <<pc, returned>>
    /\ UNCHANGED <<player, game, tick, args, mm, ab>>

minimax_iterate == iterate("minimax")

alphabeta_iterate == iterate("alphabeta")

Next == get_move \/ minimax_iterate \/ alphabeta_iterate

Spec == Init /\ [][Next]_vars

(* ------------------------------------------------------------------ *)
(* The search functions called directly, as a test of the module      *)
(* calls them: minimax(player, game, depth, maximizing_player) and    *)
(* alphabeta(player, game, depth, alpha, beta, maximizing_player),    *)
(* one after the other in either order on the same clock.             *)
(* ------------------------------------------------------------------ *)
InitEngine ==
    /\ player \in {CustomPlayer(1, f, FALSE, "minimax", DefaultTimeout) : f \in 0..MaxScoreFn}
    /\ game \in Boards
    /\ clock \in CallBudgets
    /\ tick \in Ticks
    /\ args \in {[depth |-> d, alpha |-> w[1], beta |-> w[2], maximizing_player |-> m] :
                     d \in Depths, w \in Windows, m \in BOOLEAN}
    /\ pc = "idle"
    /\ iterative_depth = 0
    /\ best_score = None
    /\ best_move = None
    /\ iterations = <<>>
    /\ returned = None
    /\ log = <<>>
    /\ mm = NoCall
    /\ ab = NoCall

Outcome(r) == [called |-> TRUE, score |-> r.score, move |-> r.move, log |-> r.t.log]

call_minimax ==
    /\ ~mm.called
    /\ LET r == minimax(player, game, args.depth, args.maximizing_player,
                        [clock |-> clock, tick |-> tick, log |-> <<>>])
       IN  /\ mm' = Outcome(r)
           /\ clock' = r.t.clock
           /\ log' = r.t.log
    /\ UNCHANGED <<player, game, tick, pc, iterative_depth, best_score, best_move,
                   iterations, returned, args, ab>>

call_alphabeta ==
    /\ ~ab.called
    /\ LET r == alphabeta(player, game, args.depth, args.alpha, args.beta,
                          args.maximizing_player,
                          [clock |-> clock, tick |-> tick, log |-> <<>>])
       IN  /\ ab' = Outcome(r)
           /\ clock' = r.t.clock
           /\ log' = r.t.log
    /\ UNCHANGED <<player, game, tick, pc, iterative_depth, best_score, best_move,
                   iterations, returned, args, mm>>

NextEngine == call_minimax \/ call_alphabeta

SpecEngine == InitEngine /\ [][NextEngine]_vars

(* ------------------------------------------------------------------ *)
(* Vocabulary of the properties.                                      *)
(* ------------------------------------------------------------------ *)
LegalMoves == get_legal_moves(game)
IsLegal(move) == \E i \in 1..Len(LegalMoves) : LegalMoves[i] = move

\* no query of the search reported less than the floor
NoTimeout(lg) ==
    \A j \in 1..Len(lg) : lg[j].op = "time_left" => lg[j].value >= MIN_TIME_LEFT

Count(lg, op) == Cardinality({j \in 1..Len(lg) : lg[j].op = op})

FullWindow == args.alpha = NegInf /\ args.beta = PosInf

\* the evaluator score of the state the i-th legal move leads to
ChildScore(i) == score(forecast_move(game, LegalMoves[i]), player)

\* i is the first index of an extremal child score
FirstBest(i, maximizing_player) ==
    \A j \in 1..Len(LegalMoves) :
        IF maximizing_player
        THEN ChildScore(j) <= ChildScore(i) /\ (j < i => ChildScore(j) < ChildScore(i))
        ELSE ChildScore(j) >= ChildScore(i) /\ (j < i => ChildScore(j) > ChildScore(i))

LeafConsistent(res) ==
    \E i \in 1..Len(LegalMoves) :
        /\ FirstBest(i, args.maximizing_player)
        /\ res.move = LegalMoves[i]
        /\ res.score = ChildScore(i)

\* a state where the side `side` (TRUE: maximizing) has no legal moves is
\* met by a search of `depth` plies from g
RECURSIVE ReachesTerminal(_, _, _, _)
ReachesTerminal(g, depth, maximizing_player, side) ==
    IF NumMoves(g) = 0 THEN maximizing_player = side
    ELSE /\ depth > 1
         /\ \E i \in 1..NumMoves(g) :
                ReachesTerminal(forecast_move(g, get_legal_moves(g)[i]), depth - 1,
                                ~maximizing_player, side)

InfiniteOnlyIfTerminal(res) ==
    /\ res.score = NegInf => ReachesTerminal(game, args.depth, args.maximizing_player, TRUE)
    /\ res.score = PosInf => ReachesTerminal(game, args.depth, args.maximizing_player, FALSE)

\* every forecast of a child directly follows a clock query of the same node
CheckedBeforeEachChild(lg) ==
    \A j \in 1..Len(lg) :
        lg[j].op = "forecast" =>
            j > 1 /\ lg[j - 1].op = "time_left" /\ lg[j - 1].node = lg[j].node

\* after a query below the floor at a node, no child of it is forecast or scored
StopsBelowFloor(lg) ==
    \A i \in 1..Len(lg) : \A j \in (i + 1)..Len(lg) :
        (lg[i].op = "time_left" /\ lg[i].value < MIN_TIME_LEFT
            /\ lg[j].op \in {"forecast", "score"})
        => lg[j].node # lg[i].node

(* ------------------------------------------------------------------ *)
(* Properties of get_move (checked under Spec).                       *)
(* ------------------------------------------------------------------ *)

\* C1: get_move returns the sentinel (-1, -1) when there are no legal moves
\* and otherwise one of the legal moves of the root state, never None.
GetMoveReturnsLegalMove ==
    pc = "returned" =>
        IF Len(LegalMoves) = 0 THEN returned = no_legal_moves ELSE IsLegal(returned)

\* C3: deadline safety: get_move returns while the remaining time is above
\* zero; clock + tick is what its last clock query reported, an upper bound
\* of the time left at the return.
DeadlineSafety == pc = "returned" => clock + tick > 0

\* C4: a timeout never reaches the caller of get_move as an error.
TimeoutNeverSurfaces == pc # "raised"

\* C8: in iterative mode, once a search of the loop has returned a legal
\* root move, the move get_move returns is a legal root move.
RetainedMoveSurvives ==
    (/\ pc = "returned"
     /\ player.iterative
     /\ \E i \in 1..Len(iterations) : IsLegal(iterations[i]))
    => IsLegal(returned)

\* C9: with method 'alphabeta' the root search is a maximizing layer with
\* the window alpha = -inf, beta = +inf, and a fixed-depth get_move that
\* does not run out of time returns the move minimax returns.
AlphabetaRootWindow ==
    (player.method = "alphabeta" /\ Len(log) > 0) =>
        /\ log[1].maximizing_player
        /\ log[1].alpha = NegInf
        /\ log[1].beta = PosInf
        /\ (pc = "returned" /\ ~player.iterative /\ NoTimeout(log)) =>
               returned = minimax(player, game, player.search_depth, TRUE,
                                  [clock |-> PosInf, tick |-> 0, log |-> <<>>]).move

(* ------------------------------------------------------------------ *)
(* Properties of the search functions (checked under SpecEngine).     *)
(* ------------------------------------------------------------------ *)

\* C2: with the full window and a clock that never falls below the floor,
\* alphabeta returns the same (score, move) pair as minimax for the same
\* state, depth and maximizing flag.
AlphabetaEqualsMinimax ==
    (/\ mm.called /\ ab.called
     /\ FullWindow
     /\ NoTimeout(mm.log) /\ NoTimeout(ab.log))
    => (mm.score = ab.score /\ mm.move = ab.move)

\* both searches ran three plies deep without a timeout, alphabeta scored
\* fewer states than minimax (it pruned) and they agree on a legal move
PruningWitness ==
    /\ mm.called /\ ab.called
    /\ FullWindow
    /\ NoTimeout(mm.log) /\ NoTimeout(ab.log)
    /\ args.depth = 3
    /\ Count(ab.log, "score") < Count(mm.log, "score")
    /\ IsLegal(ab.move)

\* C5 as amended: a depth-1 search without timeout, by minimax or by
\* alphabeta with the full window, returns the first move in enumeration
\* order whose forecast state has the extremal evaluator score, and that score.
LeafConsistencyFullWindow ==
    /\ (mm.called /\ args.depth = 1 /\ NoTimeout(mm.log) /\ Len(LegalMoves) > 0)
           => LeafConsistent(mm)
    /\ (ab.called /\ args.depth = 1 /\ FullWindow /\ NoTimeout(ab.log) /\ Len(LegalMoves) > 0)
           => LeafConsistent(ab)

\* C5 as stated: every depth-1 search without timeout, whatever the window
\* alphabeta is called with, returns that first extremal move and its score.
LeafConsistency ==
    /\ (mm.called /\ args.depth = 1 /\ NoTimeout(mm.log) /\ Len(LegalMoves) > 0)
           => LeafConsistent(mm)
    /\ (ab.called /\ args.depth = 1 /\ NoTimeout(ab.log) /\ Len(LegalMoves) > 0)
           => LeafConsistent(ab)

\* both depth-1 searches ran without timeout on a state where two moves tie
\* for the extremal score, and both returned the earlier of them
LeafTieWitness ==
    /\ mm.called /\ ab.called
    /\ args.depth = 1 /\ FullWindow
    /\ NoTimeout(mm.log) /\ NoTimeout(ab.log)
    /\ \E i, j \in 1..Len(LegalMoves) :
           /\ i < j
           /\ FirstBest(i, args.maximizing_player)
           /\ ChildScore(j) = ChildScore(i)
           /\ mm.move = LegalMoves[i]
           /\ ab.move = LegalMoves[i]

\* C6: on a state without legal moves minimax and alphabeta return -inf on
\* a maximizing layer, +inf on a minimizing one, with the move (-1, -1),
\* and the evaluator is not called.
TerminalExtremes ==
    \A res \in {mm, ab} :
        (res.called /\ Len(LegalMoves) = 0) =>
            /\ res.score = (IF args.maximizing_player THEN NegInf ELSE PosInf)
            /\ res.move = no_legal_moves
            /\ Count(res.log, "score") = 0

\* both functions were called on a terminal state, with a narrowed window
\* and a clock already below the floor
TerminalWitness ==
    /\ mm.called /\ ab.called
    /\ Len(LegalMoves) = 0
    /\ args.depth > 1
    /\ args.alpha = PyTrue
    /\ clock < MIN_TIME_LEFT
    /\ ab.move = no_legal_moves

\* C7: in minimax and in alphabeta every descent into or evaluation of a
\* child directly follows a clock query at that node, and after a query
\* below the floor the node looks at no further child.
ClockCheckedAtEveryChild ==
    \A res \in {mm, ab} :
        res.called => CheckedBeforeEachChild(res.log) /\ StopsBelowFloor(res.log)

\* C10: minimax and alphabeta return +inf or -inf only if a state where the
\* minimizing, resp. maximizing, side cannot move lies within the searched
\* depth.
InfinityMeansTerminal ==
    \A res \in {mm, ab} : res.called => InfiniteOnlyIfTerminal(res)

====
